---- MODULE Spec2Model ----
(***************************************************************************)
(* A model of JasonGross/llm-tools:                                        *)
(*   - process_api_requests (parallel_processor.py): the token-bucket      *)
(*     scheduler loop and the APIRequest.call_api coroutines it spawns;    *)
(*   - Memoize (memocache.py): the persistent memoization cache.           *)
(*                                                                         *)
(* Time is measured in whole seconds.  The scheduler only ever uses        *)
(* differences of time.time() values, so the model keeps the differences   *)
(* (seconds_since_update, seconds_since_rate_limit_error, the ages of the  *)
(* recent dispatches) and lets them saturate where the code no longer      *)
(* distinguishes larger values.  Request capacity is a fixed-point number  *)
(* with OneToken units per request, so that rates below one request per    *)
(* minute are representable.                                               *)
(***************************************************************************)
EXTENDS Integers, Sequences, FiniteSets, TLC

\* ------------------------------------------------------------------ bounds
MaxRequests == 2        \* length of the input iterator is 0..MaxRequests
MaxAttemptsBound == 2   \* max_attempts is 1..MaxAttemptsBound
NumCallers == 2         \* concurrent users of the cache: 1..NumCallers
MaxCalls == 3           \* calls of the cache's methods they make in total, at most

\* --------------------------------------------------------------- constants
None == -1                                       \* Python's None, not a task id
OneToken == 120                                  \* fixed-point 1.0 request
seconds_to_pause_after_rate_limit_error == 15
SecondsPerMinute == 60
TimeSteps == {15}                                \* granularity of the clock
Rates == {OneToken \div 2, OneToken, 2 * OneToken}   \* 0.5, 1 and 2 per minute
Exceptions == {"RateLimitError", "APIError", "ValueError"}
\* what the deferred calls of one run may do
OutcomeSets == {{"ok", "RateLimitError"}, {"ok", "APIError"}, {"ok", "ValueError"}}

Min(a, b) == IF a <= b THEN a ELSE b
Max(a, b) == IF a >= b THEN a ELSE b

VARIABLES
    \* ---- arguments of process_api_requests
    requests,                  \* number of items the input iterator still holds
    max_requests_per_minute,   \* fixed point, OneToken units per request
    max_attempts,
    request_outcomes,          \* what the deferred calls of this run may do
    tqdm_requests,             \* number of items taken from the progress iterator
    \* ---- locals of process_api_requests
    pc,                        \* "loop", "sleep", "pause", "done"
    queue_of_requests_to_retry,
    task_id_generator,         \* the next id the generator yields
    status_tracker,
    next_request,
    available_request_capacity,
    seconds_since_update,      \* time.time() - last_update_time, saturating
    seconds_since_rate_limit_error, \* time.time() - time_of_last_rate_limit_error, saturating
    iterator_not_finished,
    remaining_seconds_to_pause,
    \* ---- APIRequest objects, by task_id
    attempts_left,
    result,
    call_api,                  \* "none", "created", "awaiting": the coroutine
    \* ---- observations
    num_calls,                 \* invocations of request_func, by task_id
    finalized,                 \* "no", "succeeded", "failed", by task_id
    dispatch_ages,             \* seconds since each dispatch of the last minute
    window_observed,           \* whether dispatch_ages is being recorded
    input_asked                \* calls of next(requests) made

schedVars == <<requests, max_requests_per_minute, max_attempts, request_outcomes,
               tqdm_requests, pc, queue_of_requests_to_retry, task_id_generator,
               status_tracker, next_request, available_request_capacity,
               seconds_since_update, seconds_since_rate_limit_error,
               iterator_not_finished, remaining_seconds_to_pause,
               attempts_left, result, call_api, num_calls, finalized,
               dispatch_ages, window_observed, input_asked>>

VARIABLES
    \* ---- the durable store and the locks
    cache_file,                \* [exists, data]: the pickled dict at cache_file
    file_lock,                 \* caller holding the FileLock, or 0
    \* ---- one Memoize instance per process
    cache,                     \* self.cache, by process
    thread_lock,               \* caller holding self.thread_lock, or 0, by process
    disk_write_only,           \* self.disk_write_only, by process
    is_async,                  \* the wrapped function is a coroutine function
    process_half_async,
    \* ---- callers (threads or coroutines), each inside one process
    process_of,
    mpc,                       \* where the caller is inside __call__
    key,                       \* local `key`
    val,                       \* local `val`
    disk_cache,                \* local `disk_cache` of _load_cache_from_disk
    \* ---- observations
    returned,                  \* values the caller's calls returned, in order
    called_keys,               \* keys of the caller's calls, in order
    func_calls,                \* invocations of self.func, by caller
    inserted,                  \* <<caller, key, val>> of completed overwrites
    visible_at_start,          \* by caller: the values other processes had
                               \* persisted for its key when its call started
    \* ---- write_via_temp, step by step
    temp_file,                 \* the NamedTemporaryFile of the writer at work
    backup_file,               \* f"{file_path}.bak"
    raised,                    \* by caller: calls ended by an exception
    target_before,             \* cache_file when the last write_via_temp began
    backup_before,             \* backup_file when the last write_via_temp began
    writing,                   \* the dict the last write_via_temp pickles
    \* ---- uncache and _process_half_async_result
    uncache_calls,             \* by caller: calls of uncache made
    list_vals,                 \* by caller: list_vals of its latest composite
                               \* result, <<>> when none is being resolved
    comp_type,                 \* by caller: type(val) of that result
    comp_key,                  \* by caller: the key of that result
    overwrites,                \* by caller: _async_overwrite_result calls
                               \* made for that result
    \* ---- sync_cache(inplace=True) and removals
    scopes,                    \* by caller: in-place scopes entered, not exited
    scope_calls,               \* by caller: calls of sync_cache made
    removed                    \* by process: keys uncache has removed and no
                               \* call has stored since

cacheVars == <<cache_file, file_lock, cache, thread_lock, disk_write_only,
               is_async, process_half_async, process_of, mpc, key, val,
               disk_cache, returned, called_keys, func_calls, inserted,
               visible_at_start, temp_file, backup_file, raised,
               target_before, backup_before, writing,
               uncache_calls, list_vals, comp_type, comp_key, overwrites,
               scopes, scope_calls, removed>>

awaitVars == <<list_vals, comp_type, comp_key, overwrites>>

fileVars == <<temp_file, backup_file, raised, target_before, backup_before,
              writing>>

vars == <<schedVars, cacheVars>>

TaskIds == 0 .. (Max(MaxRequests, 5) - 1)

\* ------------------------------------------------------ StatusTracker
StatusTracker ==
    [num_tasks_started |-> 0, num_tasks_in_progress |-> 0,
     num_tasks_succeeded |-> 0, num_tasks_failed |-> 0,
     num_rate_limit_errors |-> 0, num_api_errors |-> 0,
     num_other_errors |-> 0]

\* ------------------------------------------------- caller's predicates
is_rate_limit_exception(e) == e = "RateLimitError"
is_api_exception(e) == e \in {"RateLimitError", "APIError"}

\* ------------------------------------------------------ loop helpers
\* where the loop takes the next request from when none is staged
PullSourceInputFirst(q, notFinished) ==
    IF notFinished THEN "input"
    ELSE IF q # <<>> THEN "retry"
    ELSE "none"

PullSourceAsksAgain(q, notFinished) ==
    IF q # <<>> THEN "retry" ELSE "input"

PullSource(q, notFinished) ==
    IF q # <<>> THEN "retry"
    ELSE IF notFinished THEN "input"
    ELSE "none"

\* `available_request_capacity = max_requests_per_minute`
InitialCapacityOneToken(rpm) == Min(rpm, OneToken)

InitialCapacity(rpm) == rpm

\* the refill of the capacity pool
RefillUnclamped(capacity, rpm, seconds) ==
    capacity + (rpm * seconds) \div SecondsPerMinute

Refill(capacity, rpm, seconds) ==
    Min(capacity + (rpm * seconds) \div SecondsPerMinute, rpm)

\* `if available_request_capacity >= 1`
HasCapacity(capacity) == capacity >= OneToken

\* `if self.attempts_left:` (truthiness of an int)
ShouldRetryOffByOne(attempts) == attempts >= 0

ShouldRetry(attempts) == attempts # 0

\* the progress iterator after a failed attempt: next(tqdm_requests, None)
\* only in the branch that gives the task up
ProgressAfterErrorAlways(n, attempts) == n + 1

ProgressAfterError(n, attempts) == IF ShouldRetry(attempts) THEN n ELSE n + 1

\* `if status_tracker.num_tasks_in_progress == 0: break`
AllTasksFinishedButOne(tracker) == tracker.num_tasks_in_progress <= 1

AllTasksFinished(tracker) == tracker.num_tasks_in_progress = 0

\* `next_request = None  # reset next_request to empty` after create_task
NextRequestKept(staged) == staged

NextRequestAfterDispatch(staged) == None

\* the counter call_api increments for exception e
ErrorCounterApiFirst(e) ==
    IF is_api_exception(e) THEN "num_api_errors"
    ELSE IF is_rate_limit_exception(e) THEN "num_rate_limit_errors"
    ELSE "num_other_errors"

ErrorCounter(e) ==
    IF is_rate_limit_exception(e) THEN "num_rate_limit_errors"
    ELSE IF is_api_exception(e) THEN "num_api_errors"
    ELSE "num_other_errors"

\* the counters of the tracker when a task is read from the input, and when
\* call_api finishes it
TaskStarted(tracker) ==
    [tracker EXCEPT !.num_tasks_started = @ + 1, !.num_tasks_in_progress = @ + 1]

TaskSucceeded(tracker) ==
    [tracker EXCEPT !.num_tasks_in_progress = @ - 1, !.num_tasks_succeeded = @ + 1]

TaskFailedStillInProgress(tracker) ==
    [tracker EXCEPT !.num_tasks_failed = @ + 1]

TaskFailed(tracker) ==
    [tracker EXCEPT !.num_tasks_in_progress = @ - 1, !.num_tasks_failed = @ + 1]

AddSeconds(x, d, cap) == Min(x + d, cap)

AgeDispatches(s, d) ==
    SelectSeq([i \in 1 .. Len(s) |-> s[i] + d], LAMBDA a : a < SecondsPerMinute)

\* ------------------------------------------------------------- Init
SchedInitWith(n, rpm, k, outs) ==
    /\ requests = n
    /\ max_requests_per_minute = rpm
    /\ max_attempts = k
    /\ request_outcomes = outs
    /\ tqdm_requests = 0
    /\ pc = "loop"
    /\ queue_of_requests_to_retry = <<>>
    /\ task_id_generator = 0
    /\ status_tracker = StatusTracker
    /\ next_request = None
    /\ available_request_capacity = InitialCapacity(rpm)
    /\ seconds_since_update = 0
    /\ seconds_since_rate_limit_error = seconds_to_pause_after_rate_limit_error
    /\ iterator_not_finished = TRUE
    /\ remaining_seconds_to_pause = 0
    /\ attempts_left = [t \in TaskIds |-> 0]
    /\ result = [t \in TaskIds |-> <<>>]
    /\ call_api = [t \in TaskIds |-> "none"]
    /\ num_calls = [t \in TaskIds |-> 0]
    /\ finalized = [t \in TaskIds |-> "no"]
    /\ dispatch_ages = <<>>
    /\ input_asked = 0

SchedInit ==
    \E n \in 0 .. MaxRequests, rpm \in Rates, k \in 1 .. MaxAttemptsBound,
       outs \in OutcomeSets :
        SchedInitWith(n, rpm, k, outs)

\* --------------------------------------------- process_api_requests
\* One pass of the `while True` body, from the top to the break test
\* (no await in between, so nothing else runs).
MainLoopIteration ==
    /\ pc = "loop"
    /\ LET source == IF next_request = None
                     THEN PullSource(queue_of_requests_to_retry, iterator_not_finished)
                     ELSE "staged"
           pulled == source = "input" /\ requests > 0
           stopIteration == source = "input" /\ requests = 0
           staged == CASE source = "retry" -> Head(queue_of_requests_to_retry)
                       [] pulled -> task_id_generator
                       [] OTHER -> next_request
           queue1 == IF source = "retry" THEN Tail(queue_of_requests_to_retry)
                     ELSE queue_of_requests_to_retry
           attempts1 == IF pulled
                        THEN [attempts_left EXCEPT ![staged] = max_attempts]
                        ELSE attempts_left
           tracker1 == IF pulled THEN TaskStarted(status_tracker)
                       ELSE status_tracker
           capacity1 == Refill(available_request_capacity,
                               max_requests_per_minute, seconds_since_update)
           dispatch == staged # None /\ HasCapacity(capacity1)
       IN
       /\ queue_of_requests_to_retry' = queue1
       /\ requests' = IF pulled THEN requests - 1 ELSE requests
       /\ task_id_generator' = IF pulled THEN task_id_generator + 1
                               ELSE task_id_generator
       /\ iterator_not_finished' = IF stopIteration THEN FALSE
                                   ELSE iterator_not_finished
       /\ input_asked' = IF source = "input" THEN input_asked + 1
                         ELSE input_asked
       /\ status_tracker' = tracker1
       /\ seconds_since_update' = 0
       /\ IF dispatch
          THEN /\ available_request_capacity' = capacity1 - OneToken
               /\ attempts_left' = [attempts1 EXCEPT ![staged] = @ - 1]
               /\ call_api' = [call_api EXCEPT ![staged] = "created"]
               /\ next_request' = NextRequestAfterDispatch(staged)
               /\ dispatch_ages' = IF window_observed
                                  THEN Append(dispatch_ages, 0)
                                  ELSE dispatch_ages
          ELSE /\ available_request_capacity' = capacity1
               /\ attempts_left' = attempts1
               /\ call_api' = call_api
               /\ next_request' = staged
               /\ dispatch_ages' = dispatch_ages
       /\ pc' = IF AllTasksFinished(tracker1) THEN "done" ELSE "sleep"
    /\ UNCHANGED <<max_requests_per_minute, max_attempts, request_outcomes,
                   tqdm_requests, seconds_since_rate_limit_error,
                   remaining_seconds_to_pause, result, num_calls, finalized,
                   window_observed>>
    /\ UNCHANGED cacheVars

\* asyncio.sleep(seconds_to_sleep_each_loop) returns; the cooldown test.
\* A coroutine handed to create_task is ahead of the sleep's timer in the
\* event loop, so it has started by the time the sleep returns.
SleepEachLoop ==
    /\ pc = "sleep"
    /\ \A t \in TaskIds : call_api[t] # "created"
    /\ IF seconds_since_rate_limit_error < seconds_to_pause_after_rate_limit_error
       THEN /\ remaining_seconds_to_pause' =
                   seconds_to_pause_after_rate_limit_error - seconds_since_rate_limit_error
            /\ pc' = "pause"
       ELSE /\ remaining_seconds_to_pause' = 0
            /\ pc' = "loop"
    /\ UNCHANGED <<requests, max_requests_per_minute, max_attempts, request_outcomes,
                   tqdm_requests, queue_of_requests_to_retry, task_id_generator,
                   status_tracker, next_request, available_request_capacity,
                   seconds_since_update, seconds_since_rate_limit_error,
                   iterator_not_finished, attempts_left, result, call_api,
                   num_calls, finalized, dispatch_ages,
                   window_observed, input_asked>>
    /\ UNCHANGED cacheVars

\* asyncio.sleep(remaining_seconds_to_pause) returns
PauseToCoolDown ==
    /\ pc = "pause"
    /\ remaining_seconds_to_pause = 0
    /\ pc' = "loop"
    /\ UNCHANGED <<requests, max_requests_per_minute, max_attempts, request_outcomes,
                   tqdm_requests, queue_of_requests_to_retry, task_id_generator,
                   status_tracker, next_request, available_request_capacity,
                   seconds_since_update, seconds_since_rate_limit_error,
                   iterator_not_finished, remaining_seconds_to_pause,
                   attempts_left, result, call_api, num_calls, finalized,
                   dispatch_ages,
                   window_observed, input_asked>>
    /\ UNCHANGED cacheVars

\* the clock advances while the main loop is suspended in a sleep
Tick ==
    /\ pc \in {"sleep", "pause"}
    /\ \E d \in TimeSteps :
        /\ seconds_since_update' =
               AddSeconds(seconds_since_update, d, SecondsPerMinute)
        /\ seconds_since_rate_limit_error' =
               AddSeconds(seconds_since_rate_limit_error, d,
                          seconds_to_pause_after_rate_limit_error)
        /\ remaining_seconds_to_pause' = Max(remaining_seconds_to_pause - d, 0)
        /\ dispatch_ages' = AgeDispatches(dispatch_ages, d)
    /\ UNCHANGED <<requests, max_requests_per_minute, max_attempts, request_outcomes,
                   tqdm_requests, pc, queue_of_requests_to_retry, task_id_generator,
                   status_tracker, next_request, available_request_capacity,
                   iterator_not_finished, attempts_left, result, call_api,
                   num_calls, finalized, window_observed, input_asked>>
    /\ UNCHANGED cacheVars

\* ------------------------------------------------ APIRequest.call_api
\* the coroutine starts and awaits self.request_func()
CallApiStart(t) ==
    /\ pc \in {"sleep", "pause"}
    /\ call_api[t] = "created"
    /\ call_api' = [call_api EXCEPT ![t] = "awaiting"]
    /\ num_calls' = [num_calls EXCEPT ![t] = @ + 1]
    /\ UNCHANGED <<requests, max_requests_per_minute, max_attempts, request_outcomes,
                   tqdm_requests, pc, queue_of_requests_to_retry, task_id_generator,
                   status_tracker, next_request, available_request_capacity,
                   seconds_since_update, seconds_since_rate_limit_error,
                   iterator_not_finished, remaining_seconds_to_pause,
                   attempts_left, result, finalized, dispatch_ages,
                   window_observed, input_asked>>
    /\ UNCHANGED cacheVars

\* request_func() returned
CallApiSuccess(t) ==
    /\ pc \in {"sleep", "pause"}
    /\ call_api[t] = "awaiting"
    /\ "ok" \in request_outcomes
    /\ call_api' = [call_api EXCEPT ![t] = "none"]
    /\ status_tracker' = TaskSucceeded(status_tracker)
    /\ tqdm_requests' = tqdm_requests + 1
    /\ finalized' = [finalized EXCEPT ![t] = "succeeded"]
    /\ UNCHANGED <<requests, max_requests_per_minute, max_attempts, request_outcomes,
                   pc, queue_of_requests_to_retry, task_id_generator,
                   next_request, available_request_capacity,
                   seconds_since_update, seconds_since_rate_limit_error,
                   iterator_not_finished, remaining_seconds_to_pause,
                   attempts_left, result, num_calls, dispatch_ages,
                   window_observed, input_asked>>
    /\ UNCHANGED cacheVars

\* request_func() raised e
CallApiError(t, e) ==
    /\ pc \in {"sleep", "pause"}
    /\ call_api[t] = "awaiting"
    /\ e \in request_outcomes
    /\ call_api' = [call_api EXCEPT ![t] = "none"]
    /\ result' = [result EXCEPT ![t] = Append(@, e)]
    /\ seconds_since_rate_limit_error' =
           IF is_rate_limit_exception(e) THEN 0 ELSE seconds_since_rate_limit_error
    /\ LET counted == [status_tracker EXCEPT ![ErrorCounter(e)] = @ + 1]
       IN IF ShouldRetry(attempts_left[t])
          THEN /\ queue_of_requests_to_retry' = Append(queue_of_requests_to_retry, t)
               /\ status_tracker' = counted
               /\ UNCHANGED finalized
          ELSE /\ status_tracker' = TaskFailed(counted)
               /\ finalized' = [finalized EXCEPT ![t] = "failed"]
               /\ UNCHANGED queue_of_requests_to_retry
    /\ tqdm_requests' = ProgressAfterError(tqdm_requests, attempts_left[t])
    /\ UNCHANGED <<requests, max_requests_per_minute, max_attempts, request_outcomes,
                   pc, task_id_generator, next_request, available_request_capacity,
                   seconds_since_update, iterator_not_finished,
                   remaining_seconds_to_pause, attempts_left, num_calls,
                   dispatch_ages,
                   window_observed, input_asked>>
    /\ UNCHANGED cacheVars

SchedNext ==
    \/ MainLoopIteration
    \/ SleepEachLoop
    \/ PauseToCoolDown
    \/ Tick
    \/ \E t \in TaskIds : CallApiStart(t)
    \/ \E t \in TaskIds : CallApiSuccess(t)
    \/ \E t \in TaskIds, e \in Exceptions : CallApiError(t, e)

\* ==================================================================
\* memocache.py
\* ==================================================================
Callers == 1 .. NumCallers
Processes == {1, 2}
\* the wrapped function is not assumed deterministic: the n-th invocation
\* by caller c returns a value of its own
FuncResult(c, n) == <<c, n>>
PyNone == <<0, 0>>

\* ---- Python values: every value is a record of the same shape
PyInt(n) == [type |-> "int", val |-> n, items |-> <<>>]
PyList(s) == [type |-> "list", val |-> 0, items |-> s]
PyTuple(s) == [type |-> "tuple", val |-> 0, items |-> s]
\* a dict is its items in insertion order; an item is a key with one value
PyItem(k, v) == [type |-> "item", val |-> k, items |-> <<v>>]
PyDict(s) == [type |-> "dict", val |-> 0, items |-> s]
\* a frozendict compares equal whatever the insertion order: its items are
\* kept in key order
FrozenDict(s) ==
    [type |-> "frozendict", val |-> 0,
     items |-> SortSeq(s, LAMBDA a, b : a.val < b.val)]

RECURSIVE to_immutable(_)
to_immutable(arg) ==
    IF arg.type \in {"list", "tuple"}
    THEN PyTuple([i \in 1 .. Len(arg.items) |-> to_immutable(arg.items[i])])
    ELSE IF arg.type = "dict"
    THEN FrozenDict([i \in 1 .. Len(arg.items) |->
                        PyItem(arg.items[i].val, to_immutable(arg.items[i].items[1]))])
    ELSE arg

key_of_args(args, kwargs) == <<to_immutable(args), to_immutable(kwargs)>>

\* the calls the callers make: f([1]), f((1,)), f(a=1, b=[2]), f(b=(2,), a=1)
CallInputs ==
    { [args |-> PyTuple(<<PyList(<<PyInt(1)>>)>>), kwargs |-> PyDict(<<>>)],
      [args |-> PyTuple(<<PyTuple(<<PyInt(1)>>)>>), kwargs |-> PyDict(<<>>)],
      [args |-> PyTuple(<<>>),
       kwargs |-> PyDict(<<PyItem(1, PyInt(1)), PyItem(2, PyList(<<PyInt(2)>>))>>)],
      [args |-> PyTuple(<<>>),
       kwargs |-> PyDict(<<PyItem(2, PyTuple(<<PyInt(2)>>)), PyItem(1, PyInt(1))>>)] }

\* ---- dicts
EmptyDict == [k \in {} |-> PyNone]
NoKey == <<PyInt(0), PyInt(0)>>
NoFile == [exists |-> FALSE, data |-> EmptyDict]

\* d.update(e)
DictUpdate(d, e) ==
    [k \in DOMAIN d \cup DOMAIN e |-> IF k \in DOMAIN e THEN e[k] ELSE d[k]]

\* d[k] = v
DictSet(d, k, v) == [x \in DOMAIN d \cup {k} |-> IF x = k THEN v ELSE d[x]]

\* the in-memory dict _write_cache_to_disk pickles: self.cache after the
\* reload from the file when there is one
CacheToWriteNoReload(c, file) == c

CacheToWrite(c, file) == IF file.exists THEN DictUpdate(c, file.data) ELSE c

\* write_via_temp(self.cache_file, pickle.dump(self.cache, f)): the file
\* afterwards
write_via_temp(file, data) == [exists |-> TRUE, data |-> data]

\* what _sync_call returns after a miss: the value of the conditional
\* expression around _sync_overwrite_result / _process_half_async_result
SyncMissResult(half_async, v) == IF half_async THEN v ELSE PyNone

\* ---- Init: no cache file yet, so __init__ loads nothing
\* started: the processes whose Memoize instance has been constructed
CacheInitStarted(procs, async, half, started) ==
    /\ cache_file = NoFile
    /\ file_lock = 0
    /\ cache = [p \in Processes |-> EmptyDict]
    /\ thread_lock = [p \in Processes |-> 0]
    /\ disk_write_only = [p \in Processes |-> 0]
    /\ is_async = async
    /\ process_half_async = half
    /\ process_of = procs
    /\ mpc = [c \in Callers |-> IF procs[c] \in started THEN "idle"
                                ELSE "unstarted"]
    /\ key = [c \in Callers |-> NoKey]
    /\ val = [c \in Callers |-> PyNone]
    /\ disk_cache = [c \in Callers |-> EmptyDict]
    /\ returned = [c \in Callers |-> <<>>]
    /\ called_keys = [c \in Callers |-> <<>>]
    /\ func_calls = [c \in Callers |-> 0]
    /\ inserted = {}
    /\ visible_at_start = [c \in Callers |-> {}]
    /\ temp_file = NoFile
    /\ backup_file = NoFile
    /\ raised = [c \in Callers |-> 0]
    /\ target_before = NoFile
    /\ backup_before = NoFile
    /\ writing = EmptyDict
    /\ uncache_calls = [c \in Callers |-> 0]
    /\ list_vals = [c \in Callers |-> <<>>]
    /\ comp_type = [c \in Callers |-> "none"]
    /\ comp_key = [c \in Callers |-> NoKey]
    /\ overwrites = [c \in Callers |-> 0]
    /\ scopes = [c \in Callers |-> 0]
    /\ scope_calls = [c \in Callers |-> 0]
    /\ removed = [p \in Processes |-> {}]

\* processes are interchangeable, and so are the callers of one process:
\* caller 1 runs in process 1 and later callers in the same or a later one,
\* and no process has more callers than the one before it
InProcessOrder(procs) ==
    /\ procs[1] = 1
    /\ \A c, d \in Callers : c <= d => procs[c] <= procs[d]
    /\ \A p, q \in Processes :
          p <= q => Cardinality({c \in Callers : procs[c] = p})
                      >= Cardinality({c \in Callers : procs[c] = q})

CacheInitWith(procs, async, half) ==
    CacheInitStarted(procs, async, half, Processes)

CacheInit ==
    \E procs \in [Callers -> Processes], async \in BOOLEAN, half \in BOOLEAN :
        /\ (async => half)      \* process_half_async only matters for sync
        /\ InProcessOrder(procs)
        /\ CacheInitWith(procs, async, half)

CacheIdle == CacheInitWith([c \in Callers |-> 1], FALSE, TRUE)
SchedIdle == SchedInitWith(0, OneToken, 1, {"ok"}) /\ window_observed = FALSE

RECURSIVE SumOver(_, _)
SumOver(f, S) ==
    IF S = {} THEN 0
    ELSE LET x == CHOOSE y \in S : TRUE IN f[x] + SumOver(f, S \ {x})

CallsMade ==
    SumOver([c \in Callers |->
                Len(called_keys[c]) + uncache_calls[c] + scope_calls[c]], Callers)

\* the values callers of other processes have computed for key k in calls
\* that have completed
PersistedByOthers(c, k) ==
    {w[3] : w \in {x \in inserted : x[2] = k /\ process_of[x[1]] # process_of[c]}}

\* ---- _process_half_async_result: the elements of list_vals
\* an element is a value v, or an awaitable that will yield v
Element(isAwaitable, v) == [awaitable |-> isAwaitable, v |-> v]

\* the value of the i-th element of the n-th result caller c obtained
ElementValue(c, n, i) == <<c, 10 * n + i>>

\* `any(inspect.isawaitable(x) for x in list_vals)`
AnyAwaitable(lv) == \E i \in DOMAIN lv : lv[i].awaitable

\* `if not any(inspect.isawaitable(x) for x in list_vals):` in await_v
ShouldPersistAlways(lv) == TRUE

ShouldPersist(lv) == ~AnyAwaitable(lv)

\* type(val)(list_vals): the type, then the elements in their positions; an
\* element still awaitable shows as PyNone
Container(type, lv) ==
    <<type>> \o [i \in DOMAIN lv |-> IF lv[i].awaitable THEN PyNone ELSE lv[i].v]

\* what the wrapped function returns in the composite case: a tuple of two
\* awaitables, or a list of an awaitable and a plain value
CompositeShapes ==
    { [type |-> "tuple", awaitable |-> <<TRUE, TRUE>>],
      [type |-> "list", awaitable |-> <<TRUE, FALSE>>] }

\* caller c is inside the await_v that found every element resolved
Resolving(c) == list_vals[c] # <<>> /\ overwrites[c] > 0

\* ---- Memoize.__call__ -> _sync_call / _async_call
\* key = self.key_of_args(*args, **kwargs)
StartCall(c, input) ==
    /\ mpc[c] = "idle"
    /\ CallsMade < MaxCalls
    /\ key' = [key EXCEPT ![c] = key_of_args(input.args, input.kwargs)]
    /\ called_keys' = [called_keys EXCEPT
                          ![c] = Append(@, key_of_args(input.args, input.kwargs))]
    /\ mpc' = [mpc EXCEPT ![c] = IF disk_write_only[process_of[c]] = 0
                                 THEN "load" ELSE "lookup"]
    /\ visible_at_start' =
           [visible_at_start EXCEPT
               ![c] = PersistedByOthers(c, key_of_args(input.args, input.kwargs))]
    /\ UNCHANGED <<cache_file, file_lock, cache, thread_lock, disk_write_only,
                   is_async, process_half_async, process_of, val, disk_cache,
                   returned, func_calls, inserted>>
    /\ UNCHANGED <<schedVars, scopes, scope_calls, removed, fileVars, uncache_calls, awaitVars>>

\* _load_cache_from_disk: `with self.file_lock:` entered
LoadAcquireFileLock(c) ==
    /\ mpc[c] = "load"
    /\ file_lock = 0
    /\ file_lock' = c
    /\ mpc' = [mpc EXCEPT ![c] = "load_read"]
    /\ UNCHANGED <<cache_file, cache, thread_lock, disk_write_only,
                   is_async, process_half_async, process_of, key, val, disk_cache,
                   returned, called_keys, func_calls, inserted>>
    /\ UNCHANGED visible_at_start
    /\ UNCHANGED <<schedVars, scopes, scope_calls, removed, fileVars, uncache_calls, awaitVars>>

\* _load_cache_from_disk: pickle.load, or return on FileNotFoundError; the
\* file lock is released either way
LoadRead(c) ==
    /\ mpc[c] = "load_read"
    /\ file_lock' = 0
    /\ IF cache_file.exists
       THEN /\ disk_cache' = [disk_cache EXCEPT ![c] = cache_file.data]
            /\ mpc' = [mpc EXCEPT ![c] = "load_update"]
       ELSE /\ disk_cache' = disk_cache
            /\ mpc' = [mpc EXCEPT ![c] = "lookup"]
    /\ UNCHANGED <<cache_file, cache, thread_lock, disk_write_only,
                   is_async, process_half_async, process_of, key, val,
                   returned, called_keys, func_calls, inserted>>
    /\ UNCHANGED visible_at_start
    /\ UNCHANGED <<schedVars, scopes, scope_calls, removed, fileVars, uncache_calls, awaitVars>>

\* _load_cache_from_disk: `with self.thread_lock: self.cache.update(disk_cache)`
LoadUpdate(c) ==
    /\ mpc[c] = "load_update"
    /\ thread_lock[process_of[c]] = 0
    /\ cache' = [cache EXCEPT ![process_of[c]] = DictUpdate(@, disk_cache[c])]
    /\ disk_cache' = [disk_cache EXCEPT ![c] = EmptyDict]
    /\ mpc' = [mpc EXCEPT ![c] = "lookup"]
    /\ UNCHANGED <<cache_file, file_lock, thread_lock, disk_write_only,
                   is_async, process_half_async, process_of, key, val,
                   returned, called_keys, func_calls, inserted>>
    /\ UNCHANGED visible_at_start
    /\ UNCHANGED <<schedVars, scopes, scope_calls, removed, fileVars, uncache_calls, awaitVars>>

\* `if key not in self.cache.keys():` then the call of self.func, which
\* returns v
CallFunc(c) ==
    /\ mpc[c] = "lookup"
    /\ key[c] \notin DOMAIN cache[process_of[c]]
    /\ val' = [val EXCEPT ![c] = FuncResult(c, func_calls[c] + 1)]
    /\ func_calls' = [func_calls EXCEPT ![c] = @ + 1]
    /\ mpc' = [mpc EXCEPT ![c] = "overwrite"]
    /\ UNCHANGED <<cache_file, file_lock, cache, thread_lock, disk_write_only,
                   is_async, process_half_async, process_of, key, disk_cache,
                   returned, called_keys, inserted>>
    /\ UNCHANGED visible_at_start
    /\ UNCHANGED <<schedVars, scopes, scope_calls, removed, fileVars, uncache_calls, awaitVars>>

\* the else branch: `with self.thread_lock: val = self.cache[key]`, return val
CacheHit(c) ==
    /\ mpc[c] = "lookup"
    /\ key[c] \in DOMAIN cache[process_of[c]]
    /\ thread_lock[process_of[c]] = 0
    /\ returned' = [returned EXCEPT ![c] = Append(@, cache[process_of[c]][key[c]])]
    /\ mpc' = [mpc EXCEPT ![c] = "idle"]
    /\ UNCHANGED <<cache_file, file_lock, cache, thread_lock, disk_write_only,
                   is_async, process_half_async, process_of, key, val, disk_cache,
                   called_keys, func_calls, inserted>>
    /\ UNCHANGED visible_at_start
    /\ UNCHANGED <<schedVars, scopes, scope_calls, removed, fileVars, uncache_calls, awaitVars>>

\* _sync_overwrite_result / _async_overwrite_result:
\* `with self.thread_lock: self.cache[key] = val`
OverwriteResult(c) ==
    /\ mpc[c] = "overwrite"
    /\ thread_lock[process_of[c]] = 0
    /\ cache' = [cache EXCEPT ![process_of[c]] = DictSet(@, key[c], val[c])]
    /\ removed' = [removed EXCEPT ![process_of[c]] = @ \ {key[c]}]
    /\ mpc' = [mpc EXCEPT ![c] = "write"]
    /\ UNCHANGED <<cache_file, file_lock, thread_lock, disk_write_only,
                   is_async, process_half_async, process_of, key, val, disk_cache,
                   returned, called_keys, func_calls, inserted>>
    /\ UNCHANGED visible_at_start
    /\ UNCHANGED <<schedVars, scopes, scope_calls, fileVars, uncache_calls, awaitVars>>

\* _write_cache_to_disk: `with self.thread_lock:` entered
WriteAcquireThreadLock(c) ==
    /\ mpc[c] = "write"
    /\ thread_lock[process_of[c]] = 0
    /\ thread_lock' = [thread_lock EXCEPT ![process_of[c]] = c]
    /\ mpc' = [mpc EXCEPT ![c] = "write_file_lock"]
    /\ UNCHANGED <<cache_file, file_lock, cache, disk_write_only,
                   is_async, process_half_async, process_of, key, val, disk_cache,
                   returned, called_keys, func_calls, inserted>>
    /\ UNCHANGED visible_at_start
    /\ UNCHANGED <<schedVars, scopes, scope_calls, removed, fileVars, uncache_calls, awaitVars>>

\* _write_cache_to_disk: `with self.file_lock:` entered
WriteAcquireFileLock(c) ==
    /\ mpc[c] = "write_file_lock"
    /\ file_lock = 0
    /\ file_lock' = c
    /\ mpc' = [mpc EXCEPT ![c] = "write_disk"]
    /\ UNCHANGED <<cache_file, cache, thread_lock, disk_write_only,
                   is_async, process_half_async, process_of, key, val, disk_cache,
                   returned, called_keys, func_calls, inserted>>
    /\ UNCHANGED visible_at_start
    /\ UNCHANGED <<schedVars, scopes, scope_calls, removed, fileVars, uncache_calls, awaitVars>>

\* _write_cache_to_disk under both locks: reload, write_via_temp, release;
\* then the call returns
WriteCacheToDisk(c) ==
    /\ mpc[c] = "write_disk"
    /\ LET merged == CacheToWrite(cache[process_of[c]], cache_file)
       IN /\ cache' = [cache EXCEPT ![process_of[c]] = merged]
          /\ cache_file' = write_via_temp(cache_file, merged)
    /\ file_lock' = 0
    /\ thread_lock' = [thread_lock EXCEPT ![process_of[c]] = 0]
    /\ inserted' = inserted \cup {<<c, key[c], val[c]>>}
    /\ IF Resolving(c)
       THEN \* back in await_v, which returns the element's value
            /\ returned' = returned
            /\ list_vals' = [list_vals EXCEPT ![c] = <<>>]
       ELSE /\ returned' =
                  [returned EXCEPT
                      ![c] = Append(@, IF is_async THEN val[c]
                                       ELSE SyncMissResult(process_half_async, val[c]))]
            /\ list_vals' = list_vals
    /\ mpc' = [mpc EXCEPT ![c] = "idle"]
    /\ UNCHANGED <<disk_write_only, is_async, process_half_async, process_of,
                   key, val, disk_cache, called_keys, func_calls>>
    /\ UNCHANGED visible_at_start
    /\ UNCHANGED <<schedVars, scopes, scope_calls, removed, fileVars,
                   uncache_calls, comp_type, comp_key, overwrites>>

CacheNext ==
    \/ \E c \in Callers, input \in CallInputs : StartCall(c, input)
    \/ \E c \in Callers : LoadAcquireFileLock(c)
    \/ \E c \in Callers : LoadRead(c)
    \/ \E c \in Callers : LoadUpdate(c)
    \/ \E c \in Callers : CallFunc(c)
    \/ \E c \in Callers : CacheHit(c)
    \/ \E c \in Callers : OverwriteResult(c)
    \/ \E c \in Callers : WriteAcquireThreadLock(c)
    \/ \E c \in Callers : WriteAcquireFileLock(c)
    \/ \E c \in Callers : WriteCacheToDisk(c)

CacheSpecInit == CacheInit /\ SchedIdle

CacheSpec == CacheSpecInit /\ [][CacheNext]_vars

\* ------------------------------------------------------------------
\* _write_cache_to_disk and write_via_temp step by step, with a failing
\* do_write, process crashes and Memoize instances constructed later
\* ------------------------------------------------------------------
configVars == <<disk_write_only, is_async, process_half_async, process_of>>
callVars == <<key, val, disk_cache, called_keys, func_calls, visible_at_start,
              uncache_calls, awaitVars>>

CallersOf(p) == {c \in Callers : process_of[c] = p}

\* the except branch of write_via_temp: temp_file.close(), os.remove
TempKeptAfterFailure(temp) == temp

TempAfterFailure(temp) == NoFile

\* the finally block of write_via_temp, as the target path it leaves: the
\* backup is renamed back when the target is missing and removed otherwise
TargetAfterBackupRemoved(target, backup) == target

TargetAfterFinally(target, backup) ==
    IF backup.exists /\ ~target.exists THEN backup ELSE target

\* _write_cache_to_disk under both locks: the reload, then write_via_temp
\* opens its NamedTemporaryFile
WvtOpenTemp(c) ==
    /\ mpc[c] = "write_disk"
    /\ LET merged == CacheToWrite(cache[process_of[c]], cache_file)
       IN /\ cache' = [cache EXCEPT ![process_of[c]] = merged]
          /\ writing' = merged
    /\ temp_file' = [exists |-> TRUE, data |-> EmptyDict]
    /\ target_before' = cache_file
    /\ backup_before' = backup_file
    /\ mpc' = [mpc EXCEPT ![c] = "wvt_do_write"]
    /\ UNCHANGED <<cache_file, file_lock, thread_lock, returned, inserted,
                   backup_file, raised>>
    /\ UNCHANGED <<configVars, callVars, schedVars, scopes, scope_calls, removed>>

\* do_write(temp_file) returns: pickle.dump(self.cache, f) has written all
WvtDoWrite(c) ==
    /\ mpc[c] = "wvt_do_write"
    /\ temp_file' = [exists |-> TRUE, data |-> cache[process_of[c]]]
    /\ mpc' = [mpc EXCEPT ![c] = "wvt_rename_old"]
    /\ UNCHANGED <<cache_file, file_lock, cache, thread_lock, returned, inserted,
                   backup_file, raised, target_before, backup_before, writing>>
    /\ UNCHANGED <<configVars, callVars, schedVars, scopes, scope_calls, removed>>

\* do_write(temp_file) raises: the temporary file is closed and removed and
\* the exception leaves write_via_temp, _write_cache_to_disk (releasing both
\* locks) and the memoized call
WvtDoWriteRaises(c) ==
    /\ mpc[c] = "wvt_do_write"
    /\ temp_file' = TempAfterFailure(temp_file)
    /\ file_lock' = 0
    /\ thread_lock' = [thread_lock EXCEPT ![process_of[c]] = 0]
    /\ raised' = [raised EXCEPT ![c] = @ + 1]
    /\ mpc' = [mpc EXCEPT ![c] = "idle"]
    /\ UNCHANGED <<cache_file, cache, returned, inserted, backup_file,
                   target_before, backup_before, writing>>
    /\ UNCHANGED <<configVars, callVars, schedVars, scopes, scope_calls, removed>>

\* `if os.path.exists(file_path): os.rename(file_path, backup_file_path)`
WvtRenameOld(c) ==
    /\ mpc[c] = "wvt_rename_old"
    /\ IF cache_file.exists
       THEN /\ backup_file' = cache_file
            /\ cache_file' = NoFile
       ELSE UNCHANGED <<backup_file, cache_file>>
    /\ mpc' = [mpc EXCEPT ![c] = "wvt_rename_temp"]
    /\ UNCHANGED <<file_lock, cache, thread_lock, returned, inserted,
                   temp_file, raised, target_before, backup_before, writing>>
    /\ UNCHANGED <<configVars, callVars, schedVars, scopes, scope_calls, removed>>

\* `os.rename(temp_file_path, file_path)`
WvtRenameTemp(c) ==
    /\ mpc[c] = "wvt_rename_temp"
    /\ cache_file' = temp_file
    /\ temp_file' = NoFile
    /\ mpc' = [mpc EXCEPT ![c] = "wvt_finally"]
    /\ UNCHANGED <<file_lock, cache, thread_lock, returned, inserted,
                   backup_file, raised, target_before, backup_before, writing>>
    /\ UNCHANGED <<configVars, callVars, schedVars, scopes, scope_calls, removed>>

\* the finally block: the backup is put back when the target is missing and
\* deleted otherwise; then both locks are released and the call returns
WvtFinally(c) ==
    /\ mpc[c] = "wvt_finally"
    /\ cache_file' = TargetAfterFinally(cache_file, backup_file)
    /\ backup_file' = NoFile
    /\ file_lock' = 0
    /\ thread_lock' = [thread_lock EXCEPT ![process_of[c]] = 0]
    /\ inserted' = inserted \cup {<<c, key[c], val[c]>>}
    /\ returned' = [returned EXCEPT
                      ![c] = Append(@, IF is_async THEN val[c]
                                       ELSE SyncMissResult(process_half_async, val[c]))]
    /\ mpc' = [mpc EXCEPT ![c] = "idle"]
    /\ UNCHANGED <<cache, temp_file, raised, target_before, backup_before,
                   writing>>
    /\ UNCHANGED <<configVars, callVars, schedVars, scopes, scope_calls, removed>>

\* `os.rename(temp_file_path, file_path)` raises OSError: the temporary file
\* stays where it is, the finally block runs, and the exception leaves
\* write_via_temp, _write_cache_to_disk (releasing both locks) and the call
WvtRenameTempRaises(c) ==
    /\ mpc[c] = "wvt_rename_temp"
    /\ cache_file' = TargetAfterFinally(cache_file, backup_file)
    /\ backup_file' = NoFile
    /\ file_lock' = 0
    /\ thread_lock' = [thread_lock EXCEPT ![process_of[c]] = 0]
    /\ raised' = [raised EXCEPT ![c] = @ + 1]
    /\ mpc' = [mpc EXCEPT ![c] = "idle"]
    /\ UNCHANGED <<cache, returned, inserted, temp_file, target_before,
                   backup_before, writing>>
    /\ UNCHANGED <<configVars, callVars, schedVars, scopes, scope_calls, removed>>

\* process p dies (kill, power loss): no except or finally block runs, its
\* memory is gone and the operating system drops the file lock it held
Crash(p) ==
    /\ CallersOf(p) # {}
    /\ \A c \in CallersOf(p) : mpc[c] \notin {"unstarted", "crashed"}
    /\ mpc' = [c \in Callers |-> IF c \in CallersOf(p) THEN "crashed" ELSE mpc[c]]
    /\ file_lock' = IF file_lock \in CallersOf(p) THEN 0 ELSE file_lock
    /\ thread_lock' = [thread_lock EXCEPT ![p] = 0]
    /\ cache' = [cache EXCEPT ![p] = EmptyDict]
    /\ UNCHANGED <<cache_file, returned, inserted, fileVars>>
    /\ UNCHANGED <<configVars, callVars, schedVars, scopes, scope_calls, removed>>

\* Memoize.__init__ in a process p started after another has died:
\* self.cache = {} and self._load_cache_from_disk() under the file lock
Construct(p) ==
    /\ CallersOf(p) # {}
    /\ \A c \in CallersOf(p) : mpc[c] = "unstarted"
    /\ \E d \in Callers : mpc[d] = "crashed"
    /\ file_lock = 0
    /\ cache' = [cache EXCEPT
                    ![p] = IF cache_file.exists
                           THEN DictUpdate(EmptyDict, cache_file.data)
                           ELSE EmptyDict]
    /\ mpc' = [c \in Callers |-> IF c \in CallersOf(p) THEN "idle" ELSE mpc[c]]
    /\ UNCHANGED <<cache_file, file_lock, thread_lock, returned, inserted,
                   fileVars>>
    /\ UNCHANGED <<configVars, callVars, schedVars, scopes, scope_calls, removed>>

\* caller 1 runs in the process that exists from the start; the other
\* callers run in the process that is started after the first has died
WriteInit ==
    /\ CacheInitStarted([c \in Callers |-> IF c = 1 THEN 1 ELSE 2],
                        FALSE, TRUE, {1})
    /\ SchedIdle

WriteNext ==
    \/ \E c \in Callers, input \in CallInputs : StartCall(c, input)
    \/ \E c \in Callers : LoadAcquireFileLock(c)
    \/ \E c \in Callers : LoadRead(c)
    \/ \E c \in Callers : LoadUpdate(c)
    \/ \E c \in Callers : CallFunc(c)
    \/ \E c \in Callers : CacheHit(c)
    \/ \E c \in Callers : OverwriteResult(c)
    \/ \E c \in Callers : WriteAcquireThreadLock(c)
    \/ \E c \in Callers : WriteAcquireFileLock(c)
    \/ \E c \in Callers : WvtOpenTemp(c)
    \/ \E c \in Callers : WvtDoWrite(c)
    \/ \E c \in Callers : WvtDoWriteRaises(c)
    \/ \E c \in Callers : WvtRenameOld(c)
    \/ \E c \in Callers : WvtRenameTemp(c)
    \/ \E c \in Callers : WvtRenameTempRaises(c)
    \/ \E c \in Callers : WvtFinally(c)
    \/ \E p \in Processes : Crash(p)
    \/ \E p \in Processes : Construct(p)

WriteSpec == WriteInit /\ [][WriteNext]_vars

\* ------------------------------------------------------------------
\* a sync function returning a tuple or list that holds awaitables
\* ------------------------------------------------------------------
\* `if key not in self.cache.keys():`, self.func returns a composite and
\* _process_half_async_result wraps its awaitable elements in await_v;
\* _sync_call returns the container
CallFuncComposite(c, shape) ==
    /\ mpc[c] = "lookup"
    /\ ~is_async /\ process_half_async
    /\ key[c] \notin DOMAIN cache[process_of[c]]
    /\ LET n == func_calls[c] + 1
           lv == [i \in DOMAIN shape.awaitable |->
                    Element(shape.awaitable[i], ElementValue(c, n, i))]
       IN /\ list_vals' = [list_vals EXCEPT ![c] = lv]
          /\ returned' = [returned EXCEPT ![c] = Append(@, Container(shape.type, lv))]
    /\ func_calls' = [func_calls EXCEPT ![c] = @ + 1]
    /\ comp_type' = [comp_type EXCEPT ![c] = shape.type]
    /\ comp_key' = [comp_key EXCEPT ![c] = key[c]]
    /\ overwrites' = [overwrites EXCEPT ![c] = 0]
    /\ mpc' = [mpc EXCEPT ![c] = "idle"]
    /\ UNCHANGED <<cache_file, file_lock, cache, thread_lock, inserted, key, val,
                   disk_cache, called_keys, visible_at_start, uncache_calls>>
    /\ UNCHANGED <<configVars, fileVars, schedVars, scopes, scope_calls, removed>>

\* the caller awaits element i: await_v stores the value in list_vals and,
\* when no awaitable is left, goes on to _async_overwrite_result
ResolveElement(c, i) ==
    /\ mpc[c] = "idle"
    /\ i \in DOMAIN list_vals[c]
    /\ list_vals[c][i].awaitable
    /\ LET lv == [list_vals[c] EXCEPT ![i].awaitable = FALSE]
       IN /\ list_vals' = [list_vals EXCEPT ![c] = lv]
          /\ IF ShouldPersist(lv)
             THEN /\ key' = [key EXCEPT ![c] = comp_key[c]]
                  /\ val' = [val EXCEPT ![c] = Container(comp_type[c], lv)]
                  /\ overwrites' = [overwrites EXCEPT ![c] = @ + 1]
                  /\ mpc' = [mpc EXCEPT ![c] = "overwrite"]
             ELSE UNCHANGED <<key, val, overwrites, mpc>>
    /\ UNCHANGED <<cache_file, file_lock, cache, thread_lock, returned, inserted,
                   disk_cache, called_keys, func_calls, visible_at_start,
                   uncache_calls, comp_type, comp_key>>
    /\ UNCHANGED <<configVars, fileVars, schedVars, scopes, scope_calls, removed>>

\* the calls of this specification all pass the same positional argument,
\* as a list or as a tuple, so that they share one key
HalfAsyncInputs == {input \in CallInputs : input.kwargs = PyDict(<<>>)}

HalfAsyncNext ==
    \/ \E c \in Callers, input \in HalfAsyncInputs : StartCall(c, input)
    \/ \E c \in Callers : LoadAcquireFileLock(c)
    \/ \E c \in Callers : LoadRead(c)
    \/ \E c \in Callers : LoadUpdate(c)
    \/ \E c \in Callers, shape \in CompositeShapes : CallFuncComposite(c, shape)
    \/ \E c \in Callers : CacheHit(c)
    \/ \E c \in Callers, i \in 1 .. 2 : ResolveElement(c, i)
    \/ \E c \in Callers : OverwriteResult(c)
    \/ \E c \in Callers : WriteAcquireThreadLock(c)
    \/ \E c \in Callers : WriteAcquireFileLock(c)
    \/ \E c \in Callers : WriteCacheToDisk(c)

\* a synchronous function memoized with the default process_half_async
HalfAsyncInit ==
    /\ \E procs \in [Callers -> Processes] :
          InProcessOrder(procs) /\ CacheInitWith(procs, FALSE, TRUE)
    /\ SchedIdle

HalfAsyncSpec == HalfAsyncInit /\ [][HalfAsyncNext]_vars

\* ------------------------------------------------------------------
\* Memoize.uncache
\* ------------------------------------------------------------------
\* d without key k
DictDel(d, k) == [x \in DOMAIN d \ {k} |-> d[x]]

\* `self._load_cache_from_disk(use_lock=False)` at the top of _uncache
UncacheNoReload(c, file) == c

UncacheReload(c, file) == IF file.exists THEN DictUpdate(c, file.data) ELSE c

\* uncache(*args, **kwargs): the key is computed
UncacheStart(c, input) ==
    /\ mpc[c] = "idle"
    /\ CallsMade < MaxCalls
    /\ key' = [key EXCEPT ![c] = key_of_args(input.args, input.kwargs)]
    /\ uncache_calls' = [uncache_calls EXCEPT ![c] = @ + 1]
    /\ mpc' = [mpc EXCEPT ![c] = "uncache"]
    /\ UNCHANGED <<cache_file, file_lock, cache, thread_lock, returned, inserted,
                   val, disk_cache, called_keys, func_calls, visible_at_start,
                   awaitVars>>
    /\ UNCHANGED <<configVars, fileVars, schedVars, scopes, scope_calls, removed>>

\* _uncache: `with self.thread_lock:` entered
UncacheAcquireThreadLock(c) ==
    /\ mpc[c] = "uncache"
    /\ thread_lock[process_of[c]] = 0
    /\ thread_lock' = [thread_lock EXCEPT ![process_of[c]] = c]
    /\ mpc' = [mpc EXCEPT ![c] = "uncache_file_lock"]
    /\ UNCHANGED <<cache_file, file_lock, cache, returned, inserted>>
    /\ UNCHANGED <<configVars, callVars, fileVars, schedVars, scopes, scope_calls, removed>>

\* _uncache: `with self.file_lock:` entered
UncacheAcquireFileLock(c) ==
    /\ mpc[c] = "uncache_file_lock"
    /\ file_lock = 0
    /\ file_lock' = c
    /\ mpc' = [mpc EXCEPT ![c] = "uncache_body"]
    /\ UNCHANGED <<cache_file, cache, thread_lock, returned, inserted>>
    /\ UNCHANGED <<configVars, callVars, fileVars, schedVars, scopes, scope_calls, removed>>

\* _uncache under both locks: the reload, `del self.cache[key]` (KeyError
\* when the key is absent) and _write_cache_to_disk(skip_load=True); then
\* both locks are released
UncacheBody(c) ==
    /\ mpc[c] = "uncache_body"
    /\ LET merged == UncacheReload(cache[process_of[c]], cache_file)
       IN IF key[c] \in DOMAIN merged
          THEN /\ cache' = [cache EXCEPT ![process_of[c]] = DictDel(merged, key[c])]
               /\ cache_file' = write_via_temp(cache_file, DictDel(merged, key[c]))
               /\ raised' = raised
               /\ removed' = [removed EXCEPT ![process_of[c]] = @ \cup {key[c]}]
          ELSE /\ cache' = [cache EXCEPT ![process_of[c]] = merged]
               /\ cache_file' = cache_file
               /\ raised' = [raised EXCEPT ![c] = @ + 1]
               /\ removed' = removed
    /\ file_lock' = 0
    /\ thread_lock' = [thread_lock EXCEPT ![process_of[c]] = 0]
    /\ mpc' = [mpc EXCEPT ![c] = "idle"]
    /\ UNCHANGED <<returned, inserted, temp_file, backup_file, target_before,
                   backup_before, writing>>
    /\ UNCHANGED <<configVars, callVars, schedVars, scopes, scope_calls>>

UncacheNext ==
    \/ CacheNext
    \/ \E c \in Callers, input \in CallInputs : UncacheStart(c, input)
    \/ \E c \in Callers : UncacheAcquireThreadLock(c)
    \/ \E c \in Callers : UncacheAcquireFileLock(c)
    \/ \E c \in Callers : UncacheBody(c)

\* a synchronous function memoized with the default process_half_async
UncacheInit ==
    /\ \E procs \in [Callers -> Processes] :
          InProcessOrder(procs) /\ CacheInitWith(procs, FALSE, TRUE)
    /\ SchedIdle

UncacheSpec == UncacheInit /\ [][UncacheNext]_vars

\* ------------------------------------------------------------------
\* Memoize.sync_cache(inplace=True)
\* ------------------------------------------------------------------
\* what the finally block subtracts from self.disk_write_only
ScopeExitDecrementNormalOnly(byException) == IF byException THEN 0 ELSE 1

ScopeExitDecrement(byException) == 1

\* the scopes open on the instance of process p
OpenScopes(p) == SumOver([c \in Callers |-> IF process_of[c] = p THEN scopes[c] ELSE 0],
                         Callers)

\* `with f.sync_cache(inplace=True):` is entered: self._load_cache_from_disk()
ScopeStart(c) ==
    /\ mpc[c] = "idle"
    /\ CallsMade < MaxCalls
    /\ scope_calls' = [scope_calls EXCEPT ![c] = @ + 1]
    /\ mpc' = [mpc EXCEPT ![c] = "scope_load"]
    /\ UNCHANGED <<cache_file, file_lock, cache, thread_lock, returned, inserted>>
    /\ UNCHANGED <<configVars, callVars, fileVars, schedVars, scopes, removed>>

\* _load_cache_from_disk: `with self.file_lock:` entered
ScopeLoadAcquireFileLock(c) ==
    /\ mpc[c] = "scope_load"
    /\ file_lock = 0
    /\ file_lock' = c
    /\ mpc' = [mpc EXCEPT ![c] = "scope_load_read"]
    /\ UNCHANGED <<cache_file, cache, thread_lock, returned, inserted>>
    /\ UNCHANGED <<configVars, callVars, fileVars, schedVars, scopes, scope_calls, removed>>

\* _load_cache_from_disk: pickle.load, or return on FileNotFoundError
ScopeLoadRead(c) ==
    /\ mpc[c] = "scope_load_read"
    /\ file_lock' = 0
    /\ IF cache_file.exists
       THEN /\ disk_cache' = [disk_cache EXCEPT ![c] = cache_file.data]
            /\ mpc' = [mpc EXCEPT ![c] = "scope_load_update"]
       ELSE /\ disk_cache' = disk_cache
            /\ mpc' = [mpc EXCEPT ![c] = "scope_enter"]
    /\ UNCHANGED <<cache_file, cache, thread_lock, returned, inserted, key, val,
                   called_keys, func_calls, visible_at_start, uncache_calls,
                   awaitVars>>
    /\ UNCHANGED <<configVars, fileVars, schedVars, scopes, scope_calls, removed>>

\* _load_cache_from_disk: `with self.thread_lock: self.cache.update(disk_cache)`
ScopeLoadUpdate(c) ==
    /\ mpc[c] = "scope_load_update"
    /\ thread_lock[process_of[c]] = 0
    /\ cache' = [cache EXCEPT ![process_of[c]] = DictUpdate(@, disk_cache[c])]
    /\ disk_cache' = [disk_cache EXCEPT ![c] = EmptyDict]
    /\ mpc' = [mpc EXCEPT ![c] = "scope_enter"]
    /\ UNCHANGED <<cache_file, file_lock, thread_lock, returned, inserted, key,
                   val, called_keys, func_calls, visible_at_start, uncache_calls,
                   awaitVars>>
    /\ UNCHANGED <<configVars, fileVars, schedVars, scopes, scope_calls, removed>>

\* `with self.disk_write_only_lock: self.disk_write_only += 1`, then the
\* body of the with statement starts
ScopeEnter(c) ==
    /\ mpc[c] = "scope_enter"
    /\ disk_write_only' = [disk_write_only EXCEPT ![process_of[c]] = @ + 1]
    /\ scopes' = [scopes EXCEPT ![c] = @ + 1]
    /\ mpc' = [mpc EXCEPT ![c] = "idle"]
    /\ UNCHANGED <<cache_file, file_lock, cache, thread_lock, returned, inserted,
                   is_async, process_half_async, process_of>>
    /\ UNCHANGED <<callVars, fileVars, schedVars, scope_calls, removed>>

\* the body of the innermost with statement ends, by reaching its end or
\* by an exception:
\* `finally: with self.disk_write_only_lock: self.disk_write_only -= 1`
ScopeExit(c, byException) ==
    /\ mpc[c] = "idle"
    /\ scopes[c] > 0
    /\ disk_write_only' = [disk_write_only EXCEPT
                              ![process_of[c]] = @ - ScopeExitDecrement(byException)]
    /\ scopes' = [scopes EXCEPT ![c] = @ - 1]
    /\ UNCHANGED <<cache_file, file_lock, cache, thread_lock, returned, inserted,
                   is_async, process_half_async, process_of, mpc>>
    /\ UNCHANGED <<callVars, fileVars, schedVars, scope_calls, removed>>

\* the calls of this specification all pass the same positional argument
ScopeInputs == {input \in CallInputs : input.kwargs = PyDict(<<>>)}

ScopeNext ==
    \/ \E c \in Callers, input \in ScopeInputs : StartCall(c, input)
    \/ \E c \in Callers : LoadAcquireFileLock(c)
    \/ \E c \in Callers : LoadRead(c)
    \/ \E c \in Callers : LoadUpdate(c)
    \/ \E c \in Callers : CallFunc(c)
    \/ \E c \in Callers : CacheHit(c)
    \/ \E c \in Callers : OverwriteResult(c)
    \/ \E c \in Callers : WriteAcquireThreadLock(c)
    \/ \E c \in Callers : WriteAcquireFileLock(c)
    \/ \E c \in Callers : WriteCacheToDisk(c)
    \/ \E c \in Callers : ScopeStart(c)
    \/ \E c \in Callers : ScopeLoadAcquireFileLock(c)
    \/ \E c \in Callers : ScopeLoadRead(c)
    \/ \E c \in Callers : ScopeLoadUpdate(c)
    \/ \E c \in Callers : ScopeEnter(c)
    \/ \E c \in Callers, byException \in BOOLEAN : ScopeExit(c, byException)

\* a synchronous function; the instances are constructed with the default
\* disk_write_only=False
ScopeInit ==
    /\ \E procs \in [Callers -> Processes] :
          InProcessOrder(procs) /\ CacheInitWith(procs, FALSE, FALSE)
    /\ SchedIdle

ScopeSpec == ScopeInit /\ [][ScopeNext]_vars

\* ------------------------------------------------------------------
\* the locks, with a coroutine function memoized: the callers of a process
\* are coroutines of one event loop.  The loads and writes of _async_call
\* run in worker threads (asyncio.to_thread), lock.acquire of async_lock
\* runs in a thread of _pool, and everything else runs on the thread of the
\* event loop, one coroutine at a time
\* ------------------------------------------------------------------
\* where a caller is inside a synchronous method that takes the locks with
\* `with`: uncache, and the _load_cache_from_disk of sync_cache
LoopBlockingStates ==
    {"uncache", "uncache_file_lock", "uncache_body",
     "scope_load", "scope_load_read", "scope_load_update", "scope_enter"}

\* the thread of the event loop can run a step of coroutine c: no other
\* coroutine of the loop is inside a synchronous method
OnLoop(c) ==
    is_async =>
        \A d \in CallersOf(process_of[c]) \ {c} : mpc[d] \notin LoopBlockingStates

\* _async_call, the else branch: `async with async_lock(self.thread_lock):`
\* hands lock.acquire to _pool
AsyncHitSubmit(c) ==
    /\ is_async /\ OnLoop(c)
    /\ mpc[c] = "lookup"
    /\ key[c] \in DOMAIN cache[process_of[c]]
    /\ mpc' = [mpc EXCEPT ![c] = "hit_lock"]
    /\ UNCHANGED <<cache_file, file_lock, cache, thread_lock, returned, inserted>>
    /\ UNCHANGED <<configVars, callVars, fileVars, schedVars, scopes, scope_calls, removed>>

\* async_lock: lock.acquire returns in the thread of _pool
AsyncLockAcquire(c) ==
    /\ is_async
    /\ mpc[c] \in {"hit_lock", "overwrite"}
    /\ thread_lock[process_of[c]] = 0
    /\ thread_lock' = [thread_lock EXCEPT ![process_of[c]] = c]
    /\ mpc' = [mpc EXCEPT ![c] = IF mpc[c] = "hit_lock" THEN "hit_locked"
                                 ELSE "overwrite_locked"]
    /\ UNCHANGED <<cache_file, file_lock, cache, returned, inserted>>
    /\ UNCHANGED <<configVars, callVars, fileVars, schedVars, scopes, scope_calls, removed>>

\* the coroutine is resumed with the lock held: `val = self.cache[key]`
\* (KeyError when the key has been removed meanwhile), the finally of
\* async_lock releases the lock, the call returns
AsyncHitBody(c) ==
    /\ is_async /\ OnLoop(c)
    /\ mpc[c] = "hit_locked"
    /\ IF key[c] \in DOMAIN cache[process_of[c]]
       THEN /\ returned' = [returned EXCEPT
                               ![c] = Append(@, cache[process_of[c]][key[c]])]
            /\ raised' = raised
       ELSE /\ returned' = returned
            /\ raised' = [raised EXCEPT ![c] = @ + 1]
    /\ thread_lock' = [thread_lock EXCEPT ![process_of[c]] = 0]
    /\ mpc' = [mpc EXCEPT ![c] = "idle"]
    /\ UNCHANGED <<cache_file, file_lock, cache, inserted, temp_file, backup_file,
                   target_before, backup_before, writing>>
    /\ UNCHANGED <<configVars, callVars, schedVars, scopes, scope_calls, removed>>

\* _async_overwrite_result resumed with the lock held: `self.cache[key] = val`,
\* the lock is released; then asyncio.to_thread(self._write_cache_to_disk)
AsyncOverwriteBody(c) ==
    /\ is_async /\ OnLoop(c)
    /\ mpc[c] = "overwrite_locked"
    /\ cache' = [cache EXCEPT ![process_of[c]] = DictSet(@, key[c], val[c])]
    /\ removed' = [removed EXCEPT ![process_of[c]] = @ \ {key[c]}]
    /\ thread_lock' = [thread_lock EXCEPT ![process_of[c]] = 0]
    /\ mpc' = [mpc EXCEPT ![c] = "write"]
    /\ UNCHANGED <<cache_file, file_lock, returned, inserted>>
    /\ UNCHANGED <<configVars, callVars, fileVars, schedVars, scopes, scope_calls>>

\* _load_cache_from_disk: pickle.load raises (a file that is not a pickle);
\* the with statement releases the file lock and the call ends
LoadReadRaises(c) ==
    /\ mpc[c] = "load_read"
    /\ cache_file.exists
    /\ file_lock' = 0
    /\ raised' = [raised EXCEPT ![c] = @ + 1]
    /\ mpc' = [mpc EXCEPT ![c] = "idle"]
    /\ UNCHANGED <<cache_file, cache, thread_lock, returned, inserted, temp_file,
                   backup_file, target_before, backup_before, writing>>
    /\ UNCHANGED <<configVars, callVars, schedVars, scopes, scope_calls, removed>>

\* _write_cache_to_disk under both locks: the reload or write_via_temp
\* raises; the with statements release both locks and the call ends
WriteCacheToDiskRaises(c) ==
    /\ mpc[c] = "write_disk"
    /\ file_lock' = 0
    /\ thread_lock' = [thread_lock EXCEPT ![process_of[c]] = 0]
    /\ raised' = [raised EXCEPT ![c] = @ + 1]
    /\ mpc' = [mpc EXCEPT ![c] = "idle"]
    /\ UNCHANGED <<cache_file, cache, returned, inserted, temp_file, backup_file,
                   target_before, backup_before, writing>>
    /\ UNCHANGED <<configVars, callVars, schedVars, scopes, scope_calls, removed>>

\* what caller c does once an operation of it has started
LockStep(c) ==
    \/ LoadAcquireFileLock(c)
    \/ LoadRead(c)
    \/ LoadReadRaises(c)
    \/ LoadUpdate(c)
    \/ OnLoop(c) /\ CallFunc(c)
    \/ AsyncHitSubmit(c)
    \/ AsyncLockAcquire(c)
    \/ AsyncHitBody(c)
    \/ AsyncOverwriteBody(c)
    \/ WriteAcquireThreadLock(c)
    \/ WriteAcquireFileLock(c)
    \/ WriteCacheToDisk(c)
    \/ WriteCacheToDiskRaises(c)
    \/ UncacheAcquireThreadLock(c)
    \/ UncacheAcquireFileLock(c)
    \/ UncacheBody(c)
    \/ ScopeLoadAcquireFileLock(c)
    \/ ScopeLoadRead(c)
    \/ ScopeLoadUpdate(c)
    \/ ScopeEnter(c)

LockNext ==
    \/ \E c \in Callers, input \in ScopeInputs : OnLoop(c) /\ StartCall(c, input)
    \/ \E c \in Callers, input \in ScopeInputs : OnLoop(c) /\ UncacheStart(c, input)
    \/ \E c \in Callers : OnLoop(c) /\ ScopeStart(c)
    \/ \E c \in Callers, byException \in BOOLEAN :
          OnLoop(c) /\ ScopeExit(c, byException)
    \/ \E c \in Callers : LockStep(c)

LockInit ==
    /\ \E procs \in [Callers -> Processes] :
          InProcessOrder(procs) /\ CacheInitWith(procs, TRUE, TRUE)
    /\ SchedIdle

LockSpec == LockInit /\ [][LockNext]_vars

\* a thread or coroutine that can run does run: worker threads are
\* scheduled by the operating system and ready coroutines by the event loop
LockFairness == \A c \in Callers : WF_vars(LockStep(c))

LockFairSpec == LockInit /\ [][LockNext]_vars /\ LockFairness

\* ==================================================================
Init == SchedInit /\ window_observed = FALSE /\ CacheIdle
Next == SchedNext
Spec == Init /\ [][Next]_vars

\* The scheduling the event loop guarantees: the main coroutine runs when
\* its sleep has returned, a spawned coroutine runs during some sleep of the
\* main loop, every request_func() returns or raises during some sleep, and
\* time keeps passing while the loop sleeps.  Coroutines and the clock are
\* disabled while the main loop runs, hence strong fairness for them.
Fairness ==
    /\ WF_vars(MainLoopIteration)
    /\ WF_vars(SleepEachLoop)
    /\ WF_vars(PauseToCoolDown)
    /\ SF_vars(Tick)
    /\ \A t \in 0 .. (MaxRequests - 1) : SF_vars(CallApiStart(t))
    /\ \A t \in 0 .. (MaxRequests - 1) :
          SF_vars(CallApiSuccess(t) \/ \E e \in Exceptions : CallApiError(t, e))

FairSpec == Init /\ [][Next]_vars /\ Fairness

\* The same runs with the dispatches of the last minute recorded.
WindowInit == SchedInit /\ window_observed = TRUE /\ CacheIdle

WindowSpec == WindowInit /\ [][Next]_vars

\* The scenario of 5 always-succeeding calls at 60 requests per minute with
\* max_attempts = 1; no call raises, so no cooldown pause is ever taken.
ScenarioInit ==
    /\ SchedInitWith(5, 60 * OneToken, 1, {"ok"})
    /\ window_observed = TRUE
    /\ CacheIdle

ScenarioNext ==
    \/ MainLoopIteration
    \/ SleepEachLoop
    \/ Tick
    \/ \E t \in TaskIds : CallApiStart(t)
    \/ \E t \in TaskIds : CallApiSuccess(t)

ScenarioSpec == ScenarioInit /\ [][ScenarioNext]_vars

\* Runs with max_attempts = 3: a call may fail twice and then succeed.
RetryScenarioInit ==
    /\ \E n \in 1 .. MaxRequests, outs \in OutcomeSets :
          SchedInitWith(n, 2 * OneToken, 3, outs)
    /\ window_observed = FALSE
    /\ CacheIdle

RetryScenarioSpec == RetryScenarioInit /\ [][Next]_vars

\* ------------------------------------------------------------ observers
InRetryQueue(t) ==
    \E i \in 1 .. Len(queue_of_requests_to_retry) : queue_of_requests_to_retry[i] = t

\* task t is handed to asyncio.create_task in this step
Dispatched(t) == call_api[t] = "none" /\ call_api'[t] = "created"

\* ------------------------------------------------------------------ C1
\* C1: a deferred call that raises on every attempt is invoked exactly
\* max_attempts times: while it has failed fewer times it goes back to the
\* retry queue (from where the loop stages it again); the max_attempts-th
\* failure finalizes it as failed, counted in num_tasks_failed and taken out
\* of num_tasks_in_progress, and it is never dispatched again.
C1_State ==
    \A t \in TaskIds :
        /\ num_calls[t] <= max_attempts
        /\ finalized[t] = "failed" =>
              /\ num_calls[t] = max_attempts
              /\ Len(result[t]) = max_attempts
              /\ call_api[t] = "none"
        /\ (finalized[t] = "no" /\ call_api[t] = "none"
              /\ Len(result[t]) >= 1 /\ Len(result[t]) < max_attempts)
              => (InRetryQueue(t) \/ next_request = t)
        /\ Len(result[t]) >= max_attempts => finalized[t] = "failed"

C1_Step ==
    \A t \in TaskIds :
        /\ finalized[t] = "failed" =>
              /\ ~Dispatched(t)
              /\ finalized'[t] = "failed"
              /\ num_calls'[t] = num_calls[t]
              /\ ~InRetryQueue(t)' /\ next_request' # t
        /\ (finalized[t] = "no" /\ finalized'[t] = "failed") =>
              /\ status_tracker'.num_tasks_failed = status_tracker.num_tasks_failed + 1
              /\ status_tracker'.num_tasks_in_progress =
                     status_tracker.num_tasks_in_progress - 1
        /\ (Len(result'[t]) = Len(result[t]) + 1 /\ Len(result'[t]) < max_attempts)
              => InRetryQueue(t)'

C1_ExactlyMaxAttemptsCalls == [](C1_State) /\ [][C1_Step]_vars

C1_Witness ==
    \E t \in TaskIds :
        /\ max_attempts = 2
        /\ finalized[t] = "failed"
        /\ num_calls[t] = 2

\* ------------------------------------------------------------------ C2
\* C2: for every positive max_requests_per_minute, rates below one request
\* per minute included, the loop eventually terminates with every started
\* task terminal.
C2_Terminates ==
    <>(/\ pc = "done"
       /\ status_tracker.num_tasks_in_progress = 0
       /\ requests = 0
       /\ status_tracker.num_tasks_started =
              status_tracker.num_tasks_succeeded + status_tracker.num_tasks_failed)

\* ------------------------------------------------------------------ C3
\* C3: in every 60-second window at most max_requests_per_minute deferred
\* calls are dispatched.  dispatch_ages holds the dispatches of the window
\* that ends now.
C3_AtMostRatePerWindow ==
    Len(dispatch_ages) * OneToken <= max_requests_per_minute

\* ------------------------------------------------------------------ C4
\* C4: whenever a task is dispatched, at least
\* seconds_to_pause_after_rate_limit_error seconds have passed since the
\* most recent rate-limit error.
C4_NoDispatchDuringCooldown ==
    [][(\E t \in TaskIds : Dispatched(t)) =>
          seconds_since_rate_limit_error >= seconds_to_pause_after_rate_limit_error]_vars

\* ------------------------------------------------------------------ C5
\* C5: 0 <= available_request_capacity <= max_requests_per_minute in every
\* reachable state.
C5_CapacityInRange ==
    /\ available_request_capacity >= 0
    /\ available_request_capacity <= max_requests_per_minute

\* a token has been consumed and later refills have filled the pool up
\* to its maximum again
C5_Witness ==
    /\ max_requests_per_minute >= OneToken
    /\ \E t \in TaskIds : num_calls[t] >= 1
    /\ seconds_since_update = 0
    /\ available_request_capacity = max_requests_per_minute

\* ------------------------------------------------------------------ C6
\* C6 as claimed: whenever a fresh task is dispatched, no failed task is
\* waiting in the retry queue.
C6_RetryAlwaysFirst ==
    [][\A t \in TaskIds :
          (Dispatched(t) /\ num_calls[t] = 0) => queue_of_requests_to_retry = <<>>]_vars

\* C6 as amended: when no request is staged and a failed task waits in the
\* retry queue, the loop takes the head of the retry queue and leaves the
\* input alone, so the next dispatch is that retry; a request that is
\* already staged is the one dispatched, whatever the retry queue holds.
C6_RetryBeforeInput ==
    [][pc = "loop" =>
          /\ (next_request = None /\ queue_of_requests_to_retry # <<>>) =>
                /\ requests' = requests
                /\ task_id_generator' = task_id_generator
                /\ queue_of_requests_to_retry' = Tail(queue_of_requests_to_retry)
                /\ \/ next_request' = Head(queue_of_requests_to_retry)
                   \/ Dispatched(Head(queue_of_requests_to_retry))
                /\ \A t \in TaskIds :
                      Dispatched(t) => t = Head(queue_of_requests_to_retry)
          /\ next_request # None =>
                /\ queue_of_requests_to_retry' = queue_of_requests_to_retry
                /\ \A t \in TaskIds : Dispatched(t) => t = next_request
                /\ next_request' \in {None, next_request}]_vars

\* a retry waits in the queue while untouched input remains, and the loop
\* is about to choose
C6_Witness ==
    /\ pc = "loop"
    /\ next_request = None
    /\ queue_of_requests_to_retry # <<>>
    /\ requests > 0
    /\ iterator_not_finished

\* ------------------------------------------------------------------ C7
\* C7 as claimed: the scenario ends with 5 succeeded and 0 failed, and at
\* least 4 seconds lie between the first and the last dispatch.
C7_PacedOnePerSecond ==
    pc = "done" =>
        /\ status_tracker.num_tasks_succeeded = 5
        /\ status_tracker.num_tasks_failed = 0
        /\ \/ Len(dispatch_ages) < 5
           \/ dispatch_ages[1] - dispatch_ages[Len(dispatch_ages)] >= 4

\* C7 as amended: the scenario ends with 5 succeeded and 0 failed; the
\* initial capacity of 60 tokens covers all 5 dispatches, so no request ever
\* waits for a refill: each is dispatched in the loop iteration that pulls
\* it.
C7_BurstCoversScenario ==
    /\ next_request = None
    /\ available_request_capacity >= 55 * OneToken
    /\ pc = "done" =>
          /\ status_tracker.num_tasks_succeeded = 5
          /\ status_tracker.num_tasks_failed = 0
          /\ status_tracker.num_tasks_started = 5

C7_Witness ==
    /\ pc = "done"
    /\ status_tracker.num_tasks_succeeded = 5
    /\ Len(dispatch_ages) = 5
    /\ dispatch_ages[1] = dispatch_ages[5]

\* ------------------------------------------------------------------ C8
\* C8: the progress iterator is advanced exactly once for each task that
\* reaches a terminal state and never when a failed task is requeued, so
\* the number of advancements equals num_tasks_succeeded + num_tasks_failed.
C8_Step ==
    /\ tqdm_requests' =
          tqdm_requests
            + Cardinality({t \in TaskIds : finalized[t] = "no" /\ finalized'[t] # "no"})
    /\ Len(queue_of_requests_to_retry') > Len(queue_of_requests_to_retry)
          => tqdm_requests' = tqdm_requests

C8_ProgressOncePerTerminalTask ==
    /\ [](tqdm_requests =
            status_tracker.num_tasks_succeeded + status_tracker.num_tasks_failed)
    /\ [][C8_Step]_vars

\* the loop has ended after a task was requeued and both outcomes occurred
C8_Witness ==
    /\ pc = "done"
    /\ status_tracker.num_tasks_succeeded >= 1
    /\ status_tracker.num_tasks_failed >= 1
    /\ \E t \in TaskIds : finalized[t] = "succeeded" /\ Len(result[t]) >= 1
    /\ tqdm_requests = 2

\* ------------------------------------------------------------------ C9
\* C9: two calls by one caller with arguments that canonicalize to the same
\* key, the second started after the first returned and nobody else using
\* the cache, invoke the wrapped function once and return equal values.
C9_CacheIdempotence ==
    \A c \in Callers :
        (/\ Len(called_keys[c]) = 2
         /\ Len(returned[c]) = 2
         /\ called_keys[c][1] = called_keys[c][2]
         /\ \A d \in Callers \ {c} : called_keys[d] = <<>>)
        => /\ func_calls[c] = 1
           /\ returned[c][1] = returned[c][2]

\* ----------------------------------------------------------------- C10
\* C10: an entry whose key no other writer uses is in the durable file,
\* with the value its writer computed, from the moment its write has
\* completed, whatever the interleaving of the writers' load-merge-write
\* sequences; so once all N writers have completed the file holds all N
\* entries.
KeysUsedBy(c) == {called_keys[c][i] : i \in 1 .. Len(called_keys[c])}

C10_ConcurrentWriterUnion ==
    \A w \in inserted :
        (\A d \in Callers \ {w[1]} : w[2] \notin KeysUsedBy(d))
        => /\ cache_file.exists
           /\ w[2] \in DOMAIN cache_file.data
           /\ cache_file.data[w[2]] = w[3]

\* two writers in different processes have inserted different keys and
\* both writes have completed
C10_Witness ==
    \E w1 \in inserted, w2 \in inserted :
        /\ w1[1] # w2[1]
        /\ w1[2] # w2[2]
        /\ process_of[w1[1]] # process_of[w2[1]]
        /\ \A c \in Callers : mpc[c] = "idle"
        /\ DOMAIN cache_file.data = {w1[2], w2[2]}

\* ----------------------------------------------------------------- C16
\* C16: the main loop exits only when num_tasks_in_progress = 0, the input
\* iterator has been observed exhausted, the retry queue is empty and no
\* request is staged; no input item is left unpulled and no task is queued,
\* staged or in flight at the exit.
C16_ExitOnlyWhenAllDone ==
    pc = "done" =>
        /\ status_tracker.num_tasks_in_progress = 0
        /\ ~iterator_not_finished
        /\ requests = 0
        /\ queue_of_requests_to_retry = <<>>
        /\ next_request = None
        /\ \A t \in TaskIds : call_api[t] = "none"
        /\ \A t \in TaskIds : t < task_id_generator => finalized[t] # "no"

C16_Witness ==
    /\ pc = "done"
    /\ status_tracker.num_tasks_started = 2
    /\ \E t \in TaskIds : finalized[t] = "failed" /\ Len(result[t]) = 2

\* ----------------------------------------------------------------- C17
\* C17: every created task is in exactly one of the places staged in
\* next_request, in flight, in the retry queue (once) or terminal, and a
\* task not yet created is in none.  Observed whenever the event loop can
\* switch coroutines (the main loop body has no await).
Places(t) ==
    (IF next_request = t THEN {"staged"} ELSE {})
        \cup (IF call_api[t] # "none" THEN {"in flight"} ELSE {})
        \cup (IF InRetryQueue(t) THEN {"retry queue"} ELSE {})
        \cup (IF finalized[t] # "no" THEN {"terminal"} ELSE {})

TimesQueued(t) ==
    Cardinality({i \in 1 .. Len(queue_of_requests_to_retry) :
                    queue_of_requests_to_retry[i] = t})

C17_ExactlyOnePlace ==
    \A t \in TaskIds :
        IF t < task_id_generator
        THEN Cardinality(Places(t)) = 1 /\ TimesQueued(t) <= 1
        ELSE Places(t) = {}

\* one task waits in the retry queue while another is staged
C17_Witness ==
    \E t, u \in TaskIds :
        /\ t # u
        /\ InRetryQueue(t)
        /\ next_request = u
        /\ pc = "sleep"

\* ----------------------------------------------------------------- C18
\* C18: every failed attempt increments exactly one of
\* num_rate_limit_errors, num_api_errors, num_other_errors (rate-limit
\* tested first, then API, else other) and appends exactly one error to the
\* task's history; a single call that raises a rate-limit error twice and
\* then succeeds with max_attempts = 3 ends with succeeded = 1, failed = 0,
\* rate-limit errors = 2 and no other errors.
ErrorCounters ==
    {"num_rate_limit_errors", "num_api_errors", "num_other_errors"}

C18_Step ==
    /\ \A t \in TaskIds :
          result'[t] # result[t] =>
              \E e \in Exceptions :
                  LET counter == IF is_rate_limit_exception(e)
                                 THEN "num_rate_limit_errors"
                                 ELSE IF is_api_exception(e)
                                 THEN "num_api_errors"
                                 ELSE "num_other_errors"
                  IN /\ result'[t] = Append(result[t], e)
                     /\ status_tracker'[counter] = status_tracker[counter] + 1
                     /\ \A n \in ErrorCounters \ {counter} :
                           status_tracker'[n] = status_tracker[n]
    /\ result' = result =>
          \A n \in ErrorCounters : status_tracker'[n] = status_tracker[n]

C18_State ==
    (/\ pc = "done"
     /\ status_tracker.num_tasks_started = 1
     /\ finalized[0] = "succeeded"
     /\ result[0] = <<"RateLimitError", "RateLimitError">>)
    => /\ status_tracker.num_tasks_succeeded = 1
       /\ status_tracker.num_tasks_failed = 0
       /\ status_tracker.num_rate_limit_errors = 2
       /\ status_tracker.num_api_errors = 0
       /\ status_tracker.num_other_errors = 0

C18_ErrorsClassifiedOnce == [](C18_State) /\ [][C18_Step]_vars

C18_Witness ==
    /\ pc = "done"
    /\ max_attempts = 3
    /\ status_tracker.num_tasks_started = 1
    /\ finalized[0] = "succeeded"
    /\ result[0] = <<"RateLimitError", "RateLimitError">>
    /\ status_tracker.num_rate_limit_errors = 2

\* ----------------------------------------------------------------- C11
\* C11: last-writer-wins per key: when a process persists its value for a
\* key that another process computed and persisted before, the durable
\* store afterwards holds, for that key, the value of this last persist.
C11_LastWriterWins ==
    [][\A c \in Callers :
          (/\ mpc[c] = "write_disk"
           /\ mpc'[c] = "idle"
           /\ \E w \in inserted :
                 /\ w[2] = key[c]
                 /\ process_of[w[1]] # process_of[c])
          => cache_file'.data[key[c]] = val[c]]_vars

\* ----------------------------------------------------------------- C12
\* C12: when a call by a caller that is not in disk-write-only mode starts
\* after a call of another process for the same key has completed, it does
\* not invoke the wrapped function and it returns the other process's
\* value.
C12_NoInvocation ==
    \A c \in Callers :
        (visible_at_start[c] # {} /\ func_calls'[c] # func_calls[c])
            => disk_write_only[process_of[c]] # 0

C12_ReturnsOthersValue ==
    \A c \in Callers :
        (/\ visible_at_start[c] # {}
         /\ disk_write_only[process_of[c]] = 0
         /\ Len(returned'[c]) = Len(returned[c]) + 1)
        => returned'[c][Len(returned'[c])] \in visible_at_start[c]

C12_CrossProcessVisibility ==
    [][C12_NoInvocation /\ C12_ReturnsOthersValue]_vars

\* ----------------------------------------------------------------- C13
\* C13: when do_write raises inside write_via_temp, the target file is as
\* it was when the attempt began, no .bak file has been created, the
\* temporary file is gone, and the exception reaches the caller (the call
\* ends without a result and holds no lock).
C13_FailedWriteLeavesTarget ==
    [][\A c \in Callers :
          (mpc[c] = "wvt_do_write" /\ mpc'[c] = "idle") =>
              /\ raised'[c] = raised[c] + 1
              /\ cache_file' = target_before
              /\ backup_file' = backup_before
              /\ ~temp_file'.exists
              /\ mpc'[c] = "idle"
              /\ returned'[c] = returned[c]
              /\ file_lock' # c
              /\ thread_lock'[process_of[c]] # c]_vars

\* a write has failed on top of a cache file that holds an entry
C13_Witness ==
    \E c \in Callers :
        /\ raised[c] = 1
        /\ mpc[c] = "idle"
        /\ ~temp_file.exists
        /\ cache_file.exists
        /\ cache_file = target_before
        /\ DOMAIN cache_file.data # {}
        /\ DOMAIN cache[process_of[c]] # DOMAIN cache_file.data

\* ----------------------------------------------------------------- C14
\* C14: after a process has crashed at any step of write_via_temp, a
\* Memoize instance constructed afterwards on the same path loads either
\* all entries persisted before that write began or all entries of the new
\* write, and the writes it makes later keep every entry persisted before.
C14_LoadsOldOrNew ==
    \A p \in Processes :
        (/\ \E d \in Callers : mpc[d] = "crashed"
         /\ \E c \in CallersOf(p) : mpc[c] = "unstarted" /\ mpc'[c] = "idle")
        => cache'[p] \in {target_before.data, writing}

C14_LaterWritesKeepEntries ==
    \A c \in Callers :
        (/\ \E d \in Callers : mpc[d] = "crashed"
         /\ mpc[c] = "wvt_finally" /\ mpc'[c] = "idle")
        => \A w \in inserted : w[2] \in DOMAIN cache_file'.data

C14_CrashSurvival ==
    [][C14_LoadsOldOrNew /\ C14_LaterWritesKeepEntries]_vars

\* ----------------------------------------------------------------- C15
\* C15: uncache of a key that is present removes exactly that key: when it
\* returns, the key is in neither the in-memory mapping nor the durable
\* file, and every other key that was in the in-memory mapping or in the
\* file when the removal held the file lock is in the file, with the value
\* it had (the file's value where both had one).
C15_UncacheRemovesOnlyKey ==
    [][\A c \in Callers :
          (/\ mpc[c] = "uncache_body"
           /\ mpc'[c] = "idle"
           /\ raised'[c] = raised[c]) =>
              LET mem == cache[process_of[c]]
                  disk == cache_file.data
              IN /\ key[c] \in DOMAIN mem \cup DOMAIN disk
                 /\ key[c] \notin DOMAIN cache'[process_of[c]]
                 /\ key[c] \notin DOMAIN cache_file'.data
                 /\ cache_file'.exists
                 /\ DOMAIN cache_file'.data =
                        (DOMAIN mem \cup DOMAIN disk) \ {key[c]}
                 /\ \A k \in DOMAIN cache_file'.data :
                        cache_file'.data[k] = IF k \in DOMAIN disk THEN disk[k]
                                              ELSE mem[k]]_vars

\* an uncache has removed a persisted key and the file keeps an entry of
\* another process
C15_Witness ==
    \E c \in Callers :
        /\ uncache_calls[c] = 1
        /\ raised[c] = 0
        /\ mpc[c] = "idle"
        /\ key[c] \notin DOMAIN cache_file.data
        /\ \E w \in inserted : w[2] = key[c]
        /\ \E w \in inserted :
              /\ process_of[w[1]] # process_of[c]
              /\ w[2] \in DOMAIN cache_file.data
              /\ cache_file.data[w[2]] = w[3]

\* ----------------------------------------------------------------- C19
\* C19: while a composite result for a key still has unresolved elements,
\* a call with the same arguments in the same process does not invoke the
\* wrapped function again (the entry is in the cache from the first call).
C19_NoReinvocationWhilePending ==
    [][\A c \in Callers :
          func_calls'[c] # func_calls[c] =>
              ~\E d \in CallersOf(process_of[c]) :
                    /\ AnyAwaitable(list_vals[d])
                    /\ comp_key[d] = key[c]]_vars

\* ----------------------------------------------------------------- C20
\* C20: for a composite result, in whatever order its elements are awaited,
\* nothing is written for it while an element is pending, and
\* _async_overwrite_result is called once, after the last element resolved,
\* with the container of the same type holding the resolved elements in
\* their positions; that container is what is stored in memory.
C20_WriteStates == {"overwrite", "write", "write_file_lock", "write_disk"}

C20_State ==
    \A c \in Callers :
        /\ overwrites[c] <= 1
        /\ AnyAwaitable(list_vals[c]) =>
              overwrites[c] = 0 /\ mpc[c] \notin C20_WriteStates
        \* and, when no other caller uses the key, neither the mapping nor
        \* the file has an entry for it
        /\ (/\ AnyAwaitable(list_vals[c])
            /\ \A d \in Callers \ {c} : comp_key[c] \notin KeysUsedBy(d))
              => /\ comp_key[c] \notin DOMAIN cache[process_of[c]]
                 /\ comp_key[c] \notin DOMAIN cache_file.data
        /\ mpc[c] \in C20_WriteStates =>
              /\ overwrites[c] = 1
              /\ list_vals[c] # <<>>
              /\ key[c] = comp_key[c]
              /\ val[c][1] = comp_type[c]
              /\ Len(val[c]) = Len(list_vals[c]) + 1
              /\ \A i \in DOMAIN list_vals[c] :
                    /\ val[c][i + 1] = list_vals[c][i].v
                    /\ val[c][i + 1] = ElementValue(c, func_calls[c], i)

C20_Step ==
    \A c \in Callers :
        /\ (mpc[c] = "overwrite" /\ mpc'[c] = "write")
              => cache'[process_of[c]][comp_key[c]] = val[c]
        \* the write puts it in the file when no other caller uses the key
        /\ (/\ mpc[c] = "write_disk" /\ mpc'[c] = "idle"
            /\ \A d \in Callers \ {c} : key[c] \notin KeysUsedBy(d))
              => /\ cache_file'.data[key[c]] = val[c]
                 /\ <<c, key[c], val[c]>> \in inserted'

C23_State ==
    /\ status_tracker.num_tasks_started =
          status_tracker.num_tasks_in_progress
          + status_tracker.num_tasks_succeeded
          + status_tracker.num_tasks_failed
    /\ status_tracker.num_tasks_in_progress >= 0

C23_Step ==
    /\ status_tracker'.num_tasks_started >= status_tracker.num_tasks_started
    /\ status_tracker'.num_tasks_succeeded >= status_tracker.num_tasks_succeeded
    /\ status_tracker'.num_tasks_failed >= status_tracker.num_tasks_failed

C23_TrackerBalance == [](C23_State) /\ [][C23_Step]_vars

\* a run in which one task succeeded and one was given up after a retry
C23_Witness ==
    /\ status_tracker.num_tasks_succeeded >= 1
    /\ status_tracker.num_tasks_failed >= 1
    /\ \E t \in TaskIds : finalized[t] = "failed" /\ Len(result[t]) >= 2

\* ----------------------------------------------------------------- C24
\* C24: next(requests) is called only when no request is staged and the
\* retry queue is empty; at every moment at most one task has been read
\* from the input and not dispatched yet, and it is the staged one; after
\* the input raised StopIteration it is not asked again.
C24_PulledNotDispatched ==
    {t \in TaskIds : t < task_id_generator /\ attempts_left[t] = max_attempts}

C24_State ==
    /\ Cardinality(C24_PulledNotDispatched) <= 1
    /\ \A t \in C24_PulledNotDispatched : next_request = t
    \* every call of next(requests) gave a task, but for one StopIteration
    /\ input_asked = task_id_generator + (IF iterator_not_finished THEN 0 ELSE 1)

C24_Step ==
    input_asked' # input_asked =>
        /\ next_request = None
        /\ queue_of_requests_to_retry = <<>>
        /\ iterator_not_finished

C24_LazyInput == [](C24_State) /\ [][C24_Step]_vars

\* the loop runs on after StopIteration with a request to retry, while a
\* task read earlier is in flight
C24_Witness ==
    /\ ~iterator_not_finished
    /\ pc = "loop"
    /\ queue_of_requests_to_retry # <<>>
    /\ \E t \in TaskIds : call_api[t] = "awaiting"

\* ----------------------------------------------------------------- C22
\* C22: when the target existed and the rename of the temporary file onto
\* it fails, write_via_temp leaves the target with its original contents
\* and no .bak file, and the error is propagated; when that rename
\* succeeds, it leaves no .bak file and the target with the new contents.
C22_Step ==
    \A c \in Callers :
        /\ (/\ mpc[c] = "wvt_rename_temp" /\ mpc'[c] = "idle"
            /\ target_before.exists)
              => /\ cache_file' = target_before
                 /\ ~backup_file'.exists
                 /\ raised'[c] = raised[c] + 1
                 /\ returned'[c] = returned[c]
        /\ (mpc[c] = "wvt_finally" /\ mpc'[c] = "idle")
              => /\ ~backup_file'.exists
                 /\ cache_file' = [exists |-> TRUE, data |-> writing]
                 /\ raised'[c] = raised[c]

C22_BackupRestoredOrDeleted == [][C22_Step]_vars

\* a write whose final rename failed has ended: the temporary file is still
\* there and the target holds what it held before, with the caller's new
\* entry missing
C22_Witness ==
    \E c \in Callers :
        /\ mpc[c] = "idle" /\ raised[c] > 0
        /\ temp_file.exists /\ temp_file.data = writing
        /\ target_before.exists
        /\ cache_file = target_before
        /\ ~backup_file.exists
        /\ key[c] \in DOMAIN writing \ DOMAIN cache_file.data

\* ----------------------------------------------------------------- C25
\* C25: with all callers threads of one process, a key that uncache has
\* removed is absent from the in-memory mapping and from the file in every
\* later state until a call stores a newly computed value for it.
C25_RemovedStaysRemoved ==
    (\A c \in Callers : process_of[c] = 1) =>
        \A k \in removed[1] :
            /\ k \notin DOMAIN cache[1]
            /\ k \notin DOMAIN cache_file.data

\* ----------------------------------------------------------------- C21
\* C21: self.disk_write_only counts the in-place scopes open on the
\* instance, whatever their nesting and interleaving and however they were
\* left; a call skips the reload from disk exactly when a scope is open as
\* it starts, and with every scope closed the counter is 0 again.
C21_State ==
    \A p \in Processes : disk_write_only[p] = OpenScopes(p)

C21_Step ==
    \A c \in Callers :
        (mpc[c] = "idle" /\ mpc'[c] \in {"load", "lookup"}) =>
            (mpc'[c] = "lookup" <=> OpenScopes(process_of[c]) > 0)

C21_ScopeReferenceCounted == [](C21_State) /\ [][C21_Step]_vars

\* two threads of a process have a scope open each, and one of them has
\* started a call (after its scope was entered, so the call skipped the
\* reload) and is about to invoke the function
C21_Witness ==
    \E c, d \in Callers :
        /\ c # d /\ process_of[c] = process_of[d]
        /\ scopes[c] = 1 /\ scopes[d] = 1
        /\ disk_write_only[process_of[c]] = 2
        /\ mpc[c] = "lookup"
        /\ key[c] \notin DOMAIN cache[process_of[c]]

\* ----------------------------------------------------------------- C26
\* C26: a caller takes the file lock only after the thread lock or alone,
\* never takes a lock it holds, and holds none once its operation has ended;
\* and a caller waiting for a lock gets it in the end.
C26_WaitsForThreadLock ==
    {"load_update", "hit_lock", "overwrite", "write", "uncache", "scope_load_update"}

C26_WaitsForFileLock ==
    {"load", "write_file_lock", "uncache_file_lock", "scope_load"}

C26_LockDiscipline ==
    \A c \in Callers :
        /\ mpc[c] \in C26_WaitsForThreadLock =>
              thread_lock[process_of[c]] # c /\ file_lock # c
        /\ mpc[c] \in C26_WaitsForFileLock => file_lock # c
        /\ mpc[c] = "idle" => thread_lock[process_of[c]] # c /\ file_lock # c

C26_WaitersObtain ==
    \A c \in Callers :
        (mpc[c] \in C26_WaitsForThreadLock \cup C26_WaitsForFileLock)
            ~> (mpc[c] \notin C26_WaitsForThreadLock \cup C26_WaitsForFileLock)

C26_NoDeadlock == [](C26_LockDiscipline) /\ C26_WaitersObtain

====
